---------------------------- MODULE Spec2Model ----------------------------
(***************************************************************************)
(* A model of redis_counter.py (class RedisCounter): a time-windowed event *)
(* counter kept in a Redis store.  Every call the class makes on the store *)
(* is one atomic step; the local variables of the running method are kept  *)
(* in the caller's frame.  Keys are the key strings the code builds.       *)
(* Values read from the store are strings: str(n) is the decimal string of *)
(* the number n, None is Python's None.                                    *)
(***************************************************************************)
EXTENDS Integers, Sequences, FiniteSets, TLC

(***************************************************************************)
(* Bounds of the model.                                                    *)
(***************************************************************************)
\* operations started in one behaviour of the single-caller specification
MaxOps == 3
\* operations started in one behaviour of the concurrent specification
MaxConcOps == 2
\* the seconds the clock may advance while one increment_counter() call runs
MaxCallSeconds == 6
\* operations one caller may start when it only increments and counts windows
MaxWinOps == 4
\* operations the callers of constructed instances may start together
MaxBuiltOps == 3
\* increment_counter() calls one caller may start when the store may fail
MaxFailOps == 3

\* the counter instances (one per caller) sharing the store
Procs == {"a", "b"}
\* the caller of the single-caller specification
Main == "a"
\* the name the instances are constructed with
partial_counter_key == "c"

(***************************************************************************)
(* Module constants of redis_counter.py.                                   *)
(***************************************************************************)
KEY_PREFIX == "RedisCounter:"

RECENT_COUNTS_SUFFIXES ==
    <<"last_five_seconds", "last_hour", "last_day", "last_week", "last_month">>

\* the five-second span is missing, so every window has the next one's span
RECENT_COUNTS_TIME_INTERVALS_Shifted ==
    <<60*60, 60*60*24, 60*60*24*7, 60*60*24*30, 60*60*24*30>>

RECENT_COUNTS_TIME_INTERVALS ==
    <<5, 60*60, 60*60*24, 60*60*24*7, 60*60*24*30>>

PERIODIC_COUNTS_SUFFIXES ==
    <<"historical_hour", "historical_day", "historical_week", "historical_month">>

PERIODIC_COUNTS_LIST_SUFFIXES ==
    <<"historical_hours_list", "historical_days_list",
      "historical_weeks_list", "historical_months_list">>

\* the strftime formats
PERIODIC_COUNTS_TIMESTAMP_FORMATS == <<"%Y%m%d%H", "%Y%m%d", "%Y%m%d", "%Y%m">>

Windows == 1..Len(RECENT_COUNTS_SUFFIXES)
Grans == 1..Len(PERIODIC_COUNTS_SUFFIXES)

(***************************************************************************)
(* The clock.  Times are whole seconds since the epoch; the local time     *)
(* zone is UTC.  Midnight is 2010-04-01 00:00:00, the start of an hour, a  *)
(* day and a month; the instants around it put pairs of events inside, on  *)
(* the edge of and outside each of the five windows, and in equal and in   *)
(* different hour, day and month buckets.                                  *)
(***************************************************************************)
Midnight == 14700 * 86400

Times ==
    { Midnight - 6, Midnight - 5, Midnight, Midnight + 3600,
      Midnight + 86400, Midnight + 2592000 }

(***************************************************************************)
(* time.strftime(format, time.localtime(seconds_since_epoch)): the civil   *)
(* date of a day number (proleptic Gregorian calendar), then the digits    *)
(* the format asks for.                                                    *)
(***************************************************************************)
CivilFromDays(days) ==
    LET z    == days + 719468
        era  == z \div 146097
        doe  == z - era * 146097
        yoe  == (doe - doe \div 1460 + doe \div 36524 - doe \div 146096) \div 365
        doy  == doe - (365 * yoe + yoe \div 4 - yoe \div 100)
        mp   == (5 * doy + 2) \div 153
        d    == doy - (153 * mp + 2) \div 5 + 1
        m    == IF mp < 10 THEN mp + 3 ELSE mp - 9
        y    == yoe + era * 400 + (IF m <= 2 THEN 1 ELSE 0)
    IN  [year |-> y, mon |-> m, mday |-> d]

localtime(seconds_since_epoch) ==
    LET c == CivilFromDays(seconds_since_epoch \div 86400)
    IN  [year |-> c.year, mon |-> c.mon, mday |-> c.mday,
         hour |-> (seconds_since_epoch % 86400) \div 3600]

strftime(format, tm) ==
    CASE format = "%Y%m%d%H" ->
            ToString(((tm.year * 100 + tm.mon) * 100 + tm.mday) * 100 + tm.hour)
      [] format = "%Y%m%d" ->
            ToString((tm.year * 100 + tm.mon) * 100 + tm.mday)
      [] format = "%Y%m" ->
            ToString(tm.year * 100 + tm.mon)

_timestamp_for_format(seconds_since_epoch, format) ==
    strftime(format, localtime(seconds_since_epoch))

(***************************************************************************)
(* Values.                                                                 *)
(***************************************************************************)
None == <<"None", 0>>
\* a string the store keeps: the decimal string of the number x, or the key x
str(x) == <<"str", x>>
\* float(v) raises on None
IsNumeric(v) == v[1] = "str"
\* the number a decimal string parses to
float(v) == v[2]
\* the key a string of an index list is
text(v) == v[2]

(***************************************************************************)
(* Keys.                                                                   *)
(***************************************************************************)
counter_key == KEY_PREFIX \o partial_counter_key

_recent_counts_keys ==
    [w \in Windows |-> counter_key \o ":" \o RECENT_COUNTS_SUFFIXES[w]]

_periodic_counts_key_prefixes ==
    [g \in Grans |-> counter_key \o ":" \o PERIODIC_COUNTS_SUFFIXES[g] \o ":"]

_periodic_list_keys ==
    [g \in Grans |-> counter_key \o ":" \o PERIODIC_COUNTS_LIST_SUFFIXES[g]]

\* the periodic key of granularity g for the instant t
PeriodicKey(g, t) ==
    _periodic_counts_key_prefixes[g]
        \o _timestamp_for_format(t, PERIODIC_COUNTS_TIMESTAMP_FORMATS[g])

(***************************************************************************)
(* The store: db.s holds the string keys, db.l the list keys.  A key that  *)
(* is absent is outside the domain; a list that becomes empty is removed.  *)
(***************************************************************************)
Without(f, key) == [k \in DOMAIN f \ {key} |-> f[k]]
With(f, key, v) == (key :> v) @@ Without(f, key)

EXISTS(db, key) == key \in DOMAIN db.s \/ key \in DOMAIN db.l

GET(db, key) == IF key \in DOMAIN db.s THEN db.s[key] ELSE None

SET(db, key, v) == [db EXCEPT !.s = With(db.s, key, v)]

\* the number INCR leaves in the key and returns
IncrValue(db, key) == IF key \in DOMAIN db.s THEN float(db.s[key]) + 1 ELSE 1

INCR(db, key) == [db EXCEPT !.s = With(db.s, key, str(IncrValue(db, key)))]

DELETE(db, key) == [s |-> Without(db.s, key), l |-> Without(db.l, key)]

LRANGE(db, key) == IF key \in DOMAIN db.l THEN db.l[key] ELSE <<>>

RPUSH(db, key, v) == [db EXCEPT !.l = With(db.l, key, Append(LRANGE(db, key), v))]

\* the head is pushed back at the tail
LPUSH_Tail(db, key, v) ==
    [db EXCEPT !.l = With(db.l, key, Append(LRANGE(db, key), v))]

LPUSH(db, key, v) == [db EXCEPT !.l = With(db.l, key, <<v>> \o LRANGE(db, key))]

\* the value LPOP returns
LPopValue(db, key) == IF key \in DOMAIN db.l THEN Head(db.l[key]) ELSE None

\* the head is read and left in the list
LPOP_Peek(db, key) == db

LPOP(db, key) ==
    IF key \notin DOMAIN db.l THEN db
    ELSE IF Len(db.l[key]) = 1 THEN [db EXCEPT !.l = Without(db.l, key)]
    ELSE [db EXCEPT !.l = With(db.l, key, Tail(db.l[key]))]

\* lindex(key, 0)
LINDEX_FIRST(db, key) ==
    IF key \in DOMAIN db.l THEN Head(db.l[key]) ELSE None

\* lindex(key, -1)
LINDEX_LAST(db, key) ==
    IF key \in DOMAIN db.l THEN db.l[key][Len(db.l[key])] ELSE None

LLEN(db, key) == Len(LRANGE(db, key))

EmptyStore == [s |-> [k \in {} |-> None], l |-> [k \in {} |-> <<>>]]

(***************************************************************************)
(* State.                                                                  *)
(*   redistore  the Redis store shared by the instances                    *)
(*   clock      the last value time.time() returned                        *)
(*   pc, frame  each caller's position and the locals of its method        *)
(*              (frame.now is the value time.time() returned to it,        *)
(*              frame.keys the periodic keys it built, frame.pre the list  *)
(*              a window count found)                                      *)
(* History, read by the properties only:                                   *)
(*   nops       operations that may still be started                       *)
(*   events     the timestamps recorded since the last delete/reset        *)
(*   applied    per periodic key, the INCRs applied since the last delete  *)
(*   touched    the periodic keys ever incremented                         *)
(*   ninc       increment_counter() calls completed since construction,    *)
(*              delete or reset;  fresh: no delete since construction or   *)
(*              the last reset                                             *)
(*   last       the operation completed last                               *)
(*   prev       the operation completed before it, when last was the same  *)
(*              read with the same argument at the same instant            *)
(*   wcounts    per window, the last two counts returned with no           *)
(*              increment_counter() since                                  *)
(*   track      whether wseen is recorded (fixed by the initial state)     *)
(*   wseen      per window, the count completed last since the last        *)
(*              delete/reset: what it returned, the oldest entry it left,  *)
(*              whether an increment_counter() was called since, and the   *)
(*              largest cutoff a count of the window has used              *)
(*   firsts     per granularity, the periodic keys incremented since the   *)
(*              last delete/reset, in the order of their first increment   *)
(*   pushed     per window, the timestamps appended since the last         *)
(*              delete/reset, in the order of the appends                  *)
(*   raced      an increment_counter() call was entered while another was  *)
(*              running, or a count of a window while another count of the *)
(*              same window was running                                    *)
(*   returned   the values increment_counter() returned since the last     *)
(*              delete/reset                                               *)
(***************************************************************************)
VARIABLES redistore, clock, pc, frame,
          nops, events, applied, touched, ninc, fresh, last, prev, wcounts,
          track, wseen, firsts, pushed, raced, returned

store == <<redistore>>
aux == <<track, wseen, firsts, pushed, raced, returned>>
history == <<nops, events, applied, touched, ninc, fresh, last, prev, wcounts,
             aux>>
vars == <<redistore, clock, pc, frame,
          nops, events, applied, touched, ninc, fresh, last, prev, wcounts,
          track, wseen, firsts, pushed, raced, returned>>

\* no count of the window completed yet
NoSeen == [ret |-> -1, head |-> 0, incs |-> 0, cut |-> 0]

NoFrame ==
    [op |-> "", now |-> 0, i |-> 0, key |-> "", does_exist |-> FALSE,
     head_time |-> None, some_time_ago |-> 0, keys |-> <<>>, pre |-> <<>>]

NoOp == [op |-> "", arg |-> 0, t |-> 0, ret |-> None, keys |-> <<>>,
         pre |-> <<>>, post |-> <<>>, before |-> NoSeen]

\* what a completed operation leaves in the history
Done(name, arg, t, ret, keys, pre, post) ==
    [op |-> name, arg |-> arg, t |-> t, ret |-> ret, keys |-> keys,
     pre |-> pre, post |-> post, before |-> NoSeen]

Reads == {"_counts_in_recent_count_index", "_periodic_counts_for_timestamp"}

\* b is the read a, called again with the same argument at the same instant
Repeats(a, b) ==
    /\ b.op \in Reads
    /\ a.op = b.op
    /\ a.arg = b.arg
    /\ a.t = b.t

\* the caller returns from its method with the record rec
Return(p, rec) ==
    /\ pc' = [pc EXCEPT ![p] = "idle"]
    /\ frame' = [frame EXCEPT ![p] = NoFrame]
    /\ prev' = IF Repeats(last, rec) THEN last ELSE NoOp
    /\ last' = rec

\* the caller goes on inside its method
Goto(p, label) ==
    /\ pc' = [pc EXCEPT ![p] = label]
    /\ UNCHANGED <<last, prev>>

\* a public method is entered
Enter(p) ==
    /\ pc[p] = "idle"
    /\ nops > 0
    /\ nops' = nops - 1

Count(f, key) == IF key \in DOMAIN f THEN f[key] ELSE 0

(***************************************************************************)
(* __init__ and _initCounterIfNecessary                                    *)
(***************************************************************************)
\* __init__: lines 55-57
Construct(p) ==
    /\ pc[p] = "new"
    /\ frame' = [frame EXCEPT ![p].op = "__init__", ![p].key = counter_key]
    /\ Goto(p, "init_exists")
    /\ UNCHANGED <<redistore, clock, history>>

\* where _initCounterIfNecessary returns to
AfterInit(p) ==
    IF frame[p].op = "__init__"
    THEN /\ Return(p, Done("__init__", 0, 0, None, <<>>, <<>>, <<>>))
    ELSE /\ Goto(p, "inc_incr")
         /\ UNCHANGED frame

\* the key is set to '0' whether it exists or not
InitExists_Always(p) ==
    /\ pc[p] = "init_exists"
    /\ Goto(p, "init_set")
    /\ frame' = [frame EXCEPT ![p].does_exist = FALSE]
    /\ UNCHANGED <<redistore, clock, nops, events, applied, touched, ninc,
                   fresh, wcounts, aux>>

\* line 61-62: does_exist = self.redistore.exists(key)
InitExists(p) ==
    /\ pc[p] = "init_exists"
    /\ IF EXISTS(redistore, frame[p].key) = FALSE
       THEN /\ Goto(p, "init_set")
            /\ frame' = [frame EXCEPT ![p].does_exist = FALSE]
       ELSE AfterInit(p)
    /\ UNCHANGED <<redistore, clock, nops, events, applied, touched, ninc,
                   fresh, wcounts, aux>>

\* line 64: self.redistore.set(key, '0')
InitSet(p) ==
    /\ pc[p] = "init_set"
    /\ redistore' = SET(redistore, frame[p].key, str(0))
    /\ AfterInit(p)
    /\ UNCHANGED <<clock, nops, events, applied, touched, ninc, fresh, wcounts, aux>>

(***************************************************************************)
(* current_count                                                           *)
(***************************************************************************)
current_count(p) ==
    /\ Enter(p)
    /\ Return(p, Done("current_count", 0, 0, GET(redistore, counter_key),
                      <<>>, <<>>, <<>>))
    /\ UNCHANGED <<redistore, clock, events, applied, touched, ninc, fresh,
                   wcounts, aux>>

(***************************************************************************)
(* increment_counter                                                       *)
(***************************************************************************)
\* line 70: now = time.time()
IncNow(p) ==
    /\ Enter(p)
    /\ \E t \in Times :
          /\ t >= clock
          /\ clock' = t
          /\ frame' = [frame EXCEPT ![p].op = "increment_counter",
                                    ![p].now = t, ![p].i = 1]
          /\ events' = Append(events, t)
    /\ wcounts' = [w \in Windows |-> <<>>]
    /\ wseen' = [w \in Windows |->
                     IF wseen[w].ret >= 0 THEN [wseen[w] EXCEPT !.incs = 1]
                     ELSE wseen[w]]
    /\ raced' = (raced \/ \E q \in Procs \ {p} :
                              frame[q].op = "increment_counter")
    /\ Goto(p, "inc_rpush")
    /\ UNCHANGED <<track, redistore, applied, touched, ninc, fresh, firsts, pushed,
                   returned>>

\* lines 72-73: self.redistore.rpush(key, now), for each recent key
IncRpush(p) ==
    /\ pc[p] = "inc_rpush"
    /\ redistore' = RPUSH(redistore, _recent_counts_keys[frame[p].i],
                          str(frame[p].now))
    /\ IF frame[p].i < Len(RECENT_COUNTS_SUFFIXES)
       THEN /\ frame' = [frame EXCEPT ![p].i = @ + 1]
            /\ Goto(p, "inc_rpush")
       ELSE /\ frame' = [frame EXCEPT ![p].i = 1]
            /\ Goto(p, "inc_key")
    /\ pushed' = [pushed EXCEPT ![frame[p].i] = Append(@, frame[p].now)]
    /\ UNCHANGED <<track, clock, nops, events, applied, touched, ninc, fresh, wcounts,
                   wseen, firsts, raced, returned>>

\* the instant line 77 formats
PeriodicSample(p, t) == t

\* lines 76-77: periodic_key = key_prefix + self._timestamp_for_format(time.time(), ...)
IncKey(p) ==
    /\ pc[p] = "inc_key"
    /\ \E t \in Times :
          /\ t >= clock
          /\ t - frame[p].now <= MaxCallSeconds
          /\ clock' = t
          /\ frame' = [frame EXCEPT
                 ![p].key = PeriodicKey(frame[p].i, PeriodicSample(p, t)),
                 ![p].keys = Append(@, PeriodicKey(frame[p].i, PeriodicSample(p, t)))]
    /\ Goto(p, "init_exists")
    /\ UNCHANGED <<redistore, history>>

\* the total is incremented where the periodic key should be
IncIncr_Total(p) ==
    /\ pc[p] = "inc_incr"
    /\ redistore' = INCR(redistore, counter_key)
    /\ Goto(p, "inc_lindex")
    /\ UNCHANGED <<clock, frame, history>>

\* line 79: self.redistore.incr(periodic_key)
IncIncr(p) ==
    /\ pc[p] = "inc_incr"
    /\ redistore' = INCR(redistore, frame[p].key)
    /\ applied' = With(applied, frame[p].key, Count(applied, frame[p].key) + 1)
    /\ touched' = touched \cup {frame[p].key}
    /\ firsts' = IF frame[p].key \in DOMAIN applied THEN firsts
                 ELSE [firsts EXCEPT ![frame[p].i] = Append(@, frame[p].key)]
    /\ Goto(p, "inc_lindex")
    /\ UNCHANGED <<track, clock, frame, nops, events, ninc, fresh, wcounts, wseen,
                   pushed, raced, returned>>

\* the end of one round of the loop of lines 75-83
IncLoop(p) ==
    IF frame[p].i < Len(PERIODIC_COUNTS_SUFFIXES)
    THEN /\ frame' = [frame EXCEPT ![p].i = @ + 1]
         /\ Goto(p, "inc_key")
    ELSE /\ UNCHANGED frame
         /\ Goto(p, "inc_total")

\* line 82: if self.redistore.lindex(periodic_list_key, -1) != periodic_key
IncLindex(p) ==
    /\ pc[p] = "inc_lindex"
    /\ IF LINDEX_LAST(redistore, _periodic_list_keys[frame[p].i]) # str(frame[p].key)
       THEN /\ Goto(p, "inc_list_rpush")
            /\ UNCHANGED frame
       ELSE IncLoop(p)
    /\ UNCHANGED <<redistore, clock, history>>

\* the key is not appended to its index list
IncListRpush_Skip(p) ==
    /\ pc[p] = "inc_list_rpush"
    /\ IncLoop(p)
    /\ UNCHANGED <<redistore, clock, history>>

\* line 83: self.redistore.rpush(periodic_list_key, periodic_key)
IncListRpush(p) ==
    /\ pc[p] = "inc_list_rpush"
    /\ redistore' = RPUSH(redistore, _periodic_list_keys[frame[p].i],
                          str(frame[p].key))
    /\ IncLoop(p)
    /\ UNCHANGED <<clock, history>>

\* the total is read where it should be incremented
IncTotal_Get(p) ==
    /\ pc[p] = "inc_total"
    /\ ninc' = ninc + 1
    /\ Return(p, Done("increment_counter", 0, frame[p].now,
                      float(GET(redistore, counter_key)), frame[p].keys,
                      <<>>, <<>>))
    /\ returned' = returned \cup {float(GET(redistore, counter_key))}
    /\ UNCHANGED <<track, redistore, clock, nops, events, applied, touched, fresh,
                   wcounts, wseen, firsts, pushed, raced>>

\* line 86: return self.redistore.incr(self.counter_key)
IncTotal(p) ==
    /\ pc[p] = "inc_total"
    /\ redistore' = INCR(redistore, counter_key)
    /\ ninc' = ninc + 1
    /\ Return(p, Done("increment_counter", 0, frame[p].now,
                      IncrValue(redistore, counter_key), frame[p].keys,
                      <<>>, <<>>))
    /\ returned' = returned \cup {IncrValue(redistore, counter_key)}
    /\ UNCHANGED <<track, clock, nops, events, applied, touched, fresh, wcounts, wseen,
                   firsts, pushed, raced>>

\* the positions of increment_counter() that are a call on the store
StoreCalls ==
    {"inc_rpush", "init_exists", "init_set", "inc_incr", "inc_lindex",
     "inc_list_rpush", "inc_total"}

\* lines 72-86: the call on the store the caller is at raises; nothing in
\* increment_counter() catches it, so the call ends there, with what its
\* earlier calls on the store have written
Fail(p) ==
    /\ frame[p].op = "increment_counter"
    /\ pc[p] \in StoreCalls
    /\ Return(p, Done("increment_counter", 0, frame[p].now, None,
                      frame[p].keys, <<>>, <<>>))
    /\ UNCHANGED <<redistore, clock, nops, events, applied, touched, ninc,
                   fresh, wcounts, aux>>

(***************************************************************************)
(* delete_counter and reset_counter                                        *)
(***************************************************************************)
\* line 93: self.redistore.delete(self.counter_key); reset_counter enters
\* through line 89
DeleteStart(p, name) ==
    /\ Enter(p)
    /\ redistore' = DELETE(redistore, counter_key)
    /\ frame' = [frame EXCEPT ![p].op = name, ![p].i = 1]
    /\ events' = <<>>
    /\ applied' = [k \in {} |-> 0]
    /\ ninc' = 0
    /\ fresh' = FALSE
    /\ wseen' = [w \in Windows |-> NoSeen]
    /\ firsts' = [g \in Grans |-> <<>>]
    /\ pushed' = [w \in Windows |-> <<>>]
    /\ returned' = {}
    /\ Goto(p, "del_recent")
    /\ UNCHANGED <<track, clock, touched, wcounts, raced>>

delete_counter(p) == DeleteStart(p, "delete_counter")

reset_counter(p) == DeleteStart(p, "reset_counter")

\* lines 94-95: self.redistore.delete(key), for each recent key
DelRecent(p) ==
    /\ pc[p] = "del_recent"
    /\ redistore' = DELETE(redistore, _recent_counts_keys[frame[p].i])
    /\ IF frame[p].i < Len(RECENT_COUNTS_SUFFIXES)
       THEN /\ frame' = [frame EXCEPT ![p].i = @ + 1]
            /\ Goto(p, "del_recent")
       ELSE /\ frame' = [frame EXCEPT ![p].i = 1]
            /\ Goto(p, "del_lpop")
    /\ UNCHANGED <<clock, history>>

\* lines 97-98, 100: key = self.redistore.lpop(list_key); while key: ...
\* An exhausted list ends the round; after the last list delete_counter
\* returns, to line 90 when reset_counter called it.
DelLpop(p) ==
    /\ pc[p] = "del_lpop"
    /\ redistore' = LPOP(redistore, _periodic_list_keys[frame[p].i])
    /\ LET key == LPopValue(redistore, _periodic_list_keys[frame[p].i])
       IN  IF key # None
           THEN /\ frame' = [frame EXCEPT ![p].key = text(key)]
                /\ Goto(p, "del_key")
           ELSE IF frame[p].i < Len(PERIODIC_COUNTS_LIST_SUFFIXES)
           THEN /\ frame' = [frame EXCEPT ![p].i = @ + 1]
                /\ Goto(p, "del_lpop")
           ELSE IF frame[p].op = "reset_counter"
           THEN /\ UNCHANGED frame
                /\ Goto(p, "reset_set")
           ELSE Return(p, Done("delete_counter", 0, 0, None, <<>>, <<>>, <<>>))
    /\ UNCHANGED <<clock, nops, events, applied, touched, ninc, fresh, wcounts, aux>>

\* the index list is deleted where the popped key should be
DelKey_ListKey(p) ==
    /\ pc[p] = "del_key"
    /\ redistore' = DELETE(redistore, _periodic_list_keys[frame[p].i])
    /\ Goto(p, "del_lpop")
    /\ UNCHANGED <<clock, frame, history>>

\* line 99: self.redistore.delete(key)
DelKey(p) ==
    /\ pc[p] = "del_key"
    /\ redistore' = DELETE(redistore, frame[p].key)
    /\ Goto(p, "del_lpop")
    /\ UNCHANGED <<clock, frame, history>>

\* line 90: self.redistore.set(self.counter_key, '0')
ResetSet(p) ==
    /\ pc[p] = "reset_set"
    /\ redistore' = SET(redistore, counter_key, str(0))
    /\ fresh' = TRUE
    /\ Return(p, Done("reset_counter", 0, 0, None, <<>>, <<>>, <<>>))
    /\ UNCHANGED <<clock, nops, events, applied, touched, ninc, wcounts, aux>>

(***************************************************************************)
(* _counts_in_recent_count_index                                           *)
(***************************************************************************)
\* lines 116-118: time_interval, list_key, some_time_ago = time.time() - time_interval
CountsStart(p, recent_count_index) ==
    /\ Enter(p)
    /\ \E t \in Times :
          /\ t >= clock
          /\ clock' = t
          /\ frame' = [frame EXCEPT
                 ![p].op = "_counts_in_recent_count_index",
                 ![p].i = recent_count_index,
                 ![p].now = t,
                 ![p].some_time_ago =
                     t - RECENT_COUNTS_TIME_INTERVALS[recent_count_index],
                 ![p].pre =
                     LRANGE(redistore, _recent_counts_keys[recent_count_index])]
    /\ raced' = (raced \/ \E q \in Procs \ {p} :
                              /\ frame[q].op = "_counts_in_recent_count_index"
                              /\ frame[q].i = recent_count_index)
    /\ Goto(p, "win_lpop")
    /\ UNCHANGED <<track, redistore, events, applied, touched, ninc, fresh, wcounts,
                   wseen, firsts, pushed, returned>>

\* an entry exactly one span old is evicted too
Stale_Inclusive(head_time, some_time_ago) == float(head_time) <= some_time_ago

\* line 128: float(head_time) < some_time_ago
Stale(head_time, some_time_ago) == float(head_time) < some_time_ago

\* lines 121-133: head_time = self.redistore.lpop(list_key), then float(head_time)
\* raises (the list was empty) or the loop condition is evaluated
CountsLpop(p) ==
    /\ pc[p] = "win_lpop"
    /\ redistore' = LPOP(redistore, _recent_counts_keys[frame[p].i])
    /\ LET head_time == LPopValue(redistore, _recent_counts_keys[frame[p].i])
       IN  /\ frame' = [frame EXCEPT ![p].head_time = head_time]
           /\ IF ~IsNumeric(head_time) THEN Goto(p, "win_llen")
              ELSE IF Stale(head_time, frame[p].some_time_ago)
              THEN Goto(p, "win_lpop")
              ELSE Goto(p, "win_lpush")
    /\ UNCHANGED <<clock, history>>

\* the head is pushed back on the list of the next window
CountsLpush_Next(p) ==
    /\ pc[p] = "win_lpush"
    /\ redistore' = LPUSH(redistore,
                          _recent_counts_keys[(frame[p].i % Len(RECENT_COUNTS_SUFFIXES)) + 1],
                          frame[p].head_time)
    /\ Goto(p, "win_llen")
    /\ UNCHANGED <<clock, frame, history>>

\* line 135: self.redistore.lpush(list_key, head_time)
CountsLpush(p) ==
    /\ pc[p] = "win_lpush"
    /\ redistore' = LPUSH(redistore, _recent_counts_keys[frame[p].i],
                          frame[p].head_time)
    /\ Goto(p, "win_llen")
    /\ UNCHANGED <<clock, frame, history>>

\* lines 126, 133, 137: return self.redistore.llen(list_key)
CountsLlen(p) ==
    /\ pc[p] = "win_llen"
    /\ LET n == LLEN(redistore, _recent_counts_keys[frame[p].i])
           post == LRANGE(redistore, _recent_counts_keys[frame[p].i])
           seen == wseen[frame[p].i]
       IN  /\ Return(p, [Done("_counts_in_recent_count_index", frame[p].i,
                              frame[p].now, n, <<>>, frame[p].pre, post)
                            EXCEPT !.before = seen])
           /\ wcounts' = [wcounts EXCEPT ![frame[p].i] =
                             IF @ = <<>> THEN <<n>> ELSE <<@[Len(@)], n>>]
           /\ wseen' = IF ~track THEN wseen ELSE [wseen EXCEPT ![frame[p].i] =
                 [ret |-> n,
                  head |-> IF post = <<>> THEN 0 ELSE float(Head(post)),
                  incs |-> 0,
                  cut |-> IF frame[p].some_time_ago > seen.cut
                          THEN frame[p].some_time_ago ELSE seen.cut]]
    /\ UNCHANGED <<track, redistore, clock, nops, events, applied, touched, ninc, fresh,
                   firsts, pushed, raced, returned>>

(***************************************************************************)
(* _periodic_counts_for_timestamp and counts_for_*                         *)
(***************************************************************************)
\* the value of the key, with no default
PeriodicValue_Raw(db, periodic_key) == GET(db, periodic_key)

\* lines 166-170: the value of the key, '0' when there is none
PeriodicValue(db, periodic_key) ==
    IF GET(db, periodic_key) = None THEN str(0) ELSE GET(db, periodic_key)

\* lines 162-171: the list of the four counts
_periodic_counts_for_timestamp(p, seconds_since_epoch) ==
    /\ Enter(p)
    /\ Return(p, Done("_periodic_counts_for_timestamp", 0, seconds_since_epoch,
                      [g \in Grans |->
                          PeriodicValue(redistore, PeriodicKey(g, seconds_since_epoch))],
                      <<>>, <<>>, <<>>))
    /\ UNCHANGED <<redistore, clock, events, applied, touched, ninc, fresh,
                   wcounts, aux>>

counts_for_hour(list_to_return) == list_to_return[1]
counts_for_day(list_to_return) == list_to_return[2]
counts_for_week(list_to_return) == list_to_return[3]
counts_for_month(list_to_return) == list_to_return[4]

(***************************************************************************)
(* Specifications.                                                         *)
(***************************************************************************)
InitHistory ==
    /\ events = <<>>
    /\ applied = [k \in {} |-> 0]
    /\ touched = {}
    /\ ninc = 0
    /\ fresh = TRUE
    /\ last = NoOp
    /\ prev = NoOp
    /\ wcounts = [w \in Windows |-> <<>>]
    /\ wseen = [w \in Windows |-> NoSeen]
    /\ firsts = [g \in Grans |-> <<>>]
    /\ pushed = [w \in Windows |-> <<>>]
    /\ raced = FALSE
    /\ returned = {}

\* one caller, whose instance was constructed on an empty store
Init ==
    /\ redistore = SET(EmptyStore, counter_key, str(0))
    /\ clock = Midnight - 6
    /\ pc = [p \in Procs |-> IF p = Main THEN "idle" ELSE "unused"]
    /\ frame = [p \in Procs |-> NoFrame]
    /\ nops = MaxOps
    /\ track = FALSE
    /\ InitHistory

Step(p) ==
    \/ current_count(p)
    \/ IncNow(p) \/ IncRpush(p) \/ IncKey(p)
    \/ InitExists(p) \/ InitSet(p)
    \/ IncIncr(p) \/ IncLindex(p) \/ IncListRpush(p) \/ IncTotal(p)
    \/ delete_counter(p) \/ reset_counter(p)
    \/ DelRecent(p) \/ DelLpop(p) \/ DelKey(p) \/ ResetSet(p)
    \/ \E w \in Windows : CountsStart(p, w)
    \/ CountsLpop(p) \/ CountsLpush(p) \/ CountsLlen(p)
    \/ \E t \in Times : _periodic_counts_for_timestamp(p, t)

Next == Step(Main)

Spec == Init /\ [][Next]_vars

\* several instances on one store, each constructed by its caller and then
\* incrementing; every call on the store is atomic.  The clock starts at the
\* last but one instant of Times, so that two instants remain.
InitConc ==
    /\ redistore = EmptyStore
    /\ clock = Midnight + 86400
    /\ pc = [p \in Procs |-> "new"]
    /\ frame = [p \in Procs |-> NoFrame]
    /\ nops = MaxConcOps
    /\ track = FALSE
    /\ InitHistory

StepConc(p) ==
    \/ Construct(p)
    \/ InitExists(p) \/ InitSet(p)
    \/ IncNow(p) \/ IncRpush(p) \/ IncKey(p)
    \/ IncIncr(p) \/ IncLindex(p) \/ IncListRpush(p) \/ IncTotal(p)

NextConc == \E p \in Procs : StepConc(p)

SpecConc == InitConc /\ [][NextConc]_vars

\* one caller that only increments and counts windows, from midnight on; what
\* each count of a window saw is recorded for the next count of the window
InitWin ==
    /\ redistore = SET(EmptyStore, counter_key, str(0))
    /\ clock = Midnight
    /\ pc = [p \in Procs |-> IF p = Main THEN "idle" ELSE "unused"]
    /\ frame = [p \in Procs |-> NoFrame]
    /\ nops = MaxWinOps
    /\ track = TRUE
    /\ InitHistory

StepWin(p) ==
    \/ IncNow(p) \/ IncRpush(p) \/ IncKey(p)
    \/ InitExists(p) \/ InitSet(p)
    \/ IncIncr(p) \/ IncLindex(p) \/ IncListRpush(p) \/ IncTotal(p)
    \/ \E w \in Windows : CountsStart(p, w)
    \/ CountsLpop(p) \/ CountsLpush(p) \/ CountsLlen(p)

NextWin == StepWin(Main)

SpecWin == InitWin /\ [][NextWin]_vars

\* several instances already constructed on one store, whose callers
\* increment and count windows; every call on the store is atomic.  The clock
\* starts at the last but one instant of Times.
InitBuilt ==
    /\ redistore = SET(EmptyStore, counter_key, str(0))
    /\ clock = Midnight + 86400
    /\ pc = [p \in Procs |-> "idle"]
    /\ frame = [p \in Procs |-> NoFrame]
    /\ nops = MaxBuiltOps
    /\ track = TRUE
    /\ InitHistory

NextBuilt == \E p \in Procs : StepWin(p)

SpecBuilt == InitBuilt /\ [][NextBuilt]_vars

\* one caller that only increments, on a store whose calls may fail.  The
\* clock starts at the last but one instant of Times.
InitFail ==
    /\ redistore = SET(EmptyStore, counter_key, str(0))
    /\ clock = Midnight + 86400
    /\ pc = [p \in Procs |-> IF p = Main THEN "idle" ELSE "unused"]
    /\ frame = [p \in Procs |-> NoFrame]
    /\ nops = MaxFailOps
    /\ track = FALSE
    /\ InitHistory

StepFail(p) ==
    \/ IncNow(p) \/ IncRpush(p) \/ IncKey(p)
    \/ InitExists(p) \/ InitSet(p)
    \/ IncIncr(p) \/ IncLindex(p) \/ IncListRpush(p) \/ IncTotal(p)
    \/ Fail(p)

NextFail == StepFail(Main)

SpecFail == InitFail /\ [][NextFail]_vars

(***************************************************************************)
(* Properties.                                                             *)
(***************************************************************************)
\* the single caller is between two operations
Idle == pc[Main] = "idle"

\* every caller is between two operations
AllIdle == \A p \in Procs : pc[p] = "idle"

WindowCount == "_counts_in_recent_count_index"
PeriodicCounts == "_periodic_counts_for_timestamp"

\* the recorded timestamps that are not older than cutoff
Recorded(cutoff) == {k \in DOMAIN events : events[k] >= cutoff}

\* the entries of a window's list that are not older than cutoff
NotOlder(list, cutoff) ==
    LET Keep(v) == float(v) >= cutoff IN SelectSeq(list, Keep)

\* the cutoff of the window count completed last
LastCutoff == last.t - RECENT_COUNTS_TIME_INTERVALS[last.arg]

\* C1: on a counter freshly constructed or reset, with one caller, the k-th
\* increment_counter() returns k and, after N completed calls,
\* current_count() is the decimal string of N.
C1_TotalCountsIncrements ==
    (Idle /\ fresh) =>
        /\ last.op = "increment_counter" => last.ret = ninc
        /\ last.op = "current_count" => last.ret = str(ninc)

C1_Witness ==
    /\ Idle /\ fresh
    /\ last.op = "current_count"
    /\ ninc = 2
    /\ last.ret = str(2)

\* C2: with one caller, a window count called at the instant last.t returns
\* the number of timestamps recorded since the last delete/reset that are
\* >= last.t - span, whatever increments and reads came before.
C2_WindowCountExact ==
    (Idle /\ last.op = WindowCount) =>
        last.ret = Cardinality(Recorded(LastCutoff))

C2_Witness ==
    /\ Idle /\ last.op = WindowCount
    /\ Len(events) = 2
    /\ last.ret = 1

\* C3: with one caller, for each granularity the count read for a timestamp
\* is the decimal string of the number of increments, since the last
\* delete/reset, whose periodic key of that granularity is the key of the
\* timestamp.
C3_BucketCountExact ==
    (Idle /\ last.op = PeriodicCounts) =>
        \A g \in Grans :
            last.ret[g] = str(Count(applied, PeriodicKey(g, last.t)))

C3_Witness ==
    /\ Idle /\ last.op = PeriodicCounts
    /\ counts_for_hour(last.ret) = str(1)
    /\ counts_for_day(last.ret) = str(2)
    /\ counts_for_week(last.ret) = str(2)
    /\ counts_for_month(last.ret) = str(2)

\* C4: every increment_counter() call uses one time sample: the four
\* periodic keys it increments are the keys of the instant it appended to
\* the window lists.
C4_OneSharedSample ==
    last.op = "increment_counter" =>
        \A g \in Grans : last.keys[g] = PeriodicKey(g, last.t)

\* C5: after a window count, the window's list is the list the call found
\* with the entries older than the cutoff removed: the others are all
\* there, once each, in their order.
C5_ListTrimmedToCutoff ==
    last.op = WindowCount => last.post = NotOlder(last.pre, LastCutoff)

C5_Witness ==
    /\ last.op = WindowCount
    /\ Len(last.pre) = 2
    /\ Len(last.post) = 1

\* the state delete_counter() is to leave
Deleted ==
    /\ GET(redistore, counter_key) = None
    /\ \A w \in Windows : ~EXISTS(redistore, _recent_counts_keys[w])
    /\ \A key \in touched : ~EXISTS(redistore, key)
    /\ \A g \in Grans : ~EXISTS(redistore, _periodic_list_keys[g])

\* C6: when delete_counter() returns (to its caller, or to reset_counter at
\* line 90), the base key, the five window lists, every periodic key ever
\* incremented and the four index lists are absent.
C6_DeleteIsComplete ==
    ((Idle /\ last.op = "delete_counter") \/ pc[Main] = "reset_set") => Deleted

C6_Witness ==
    /\ Idle /\ last.op = "delete_counter"
    /\ Cardinality(touched) > Len(PERIODIC_COUNTS_SUFFIXES)
    /\ Deleted

\* C7: with concurrent callers, once all calls have completed every periodic
\* key holds the number of increments applied to it and the base key the
\* number of increments applied to it.
C7_ConcurrentInitKeepsCounts ==
    AllIdle =>
        /\ GET(redistore, counter_key) = str(ninc)
        /\ \A key \in DOMAIN applied : GET(redistore, key) = str(applied[key])

\* C8: counts_in_last_five_seconds() called less than 5 seconds after the
\* last increment_counter() returns at least 1; called more than 5 seconds
\* after it, it returns 0 and leaves the list empty.
C8_FiveSecondWindow ==
    (Idle /\ last.op = WindowCount /\ last.arg = 1 /\ events # <<>>) =>
        LET elapsed == last.t - events[Len(events)]
        IN  /\ elapsed < 5 => last.ret >= 1
            /\ elapsed > 5 => last.ret = 0 /\ last.post = <<>>

C8_Witness ==
    /\ Idle /\ last.op = WindowCount /\ last.arg = 1
    /\ events # <<>>
    /\ wcounts[1] = <<1, 0>>
    /\ last.t - events[Len(events)] > 5

\* C9: a read called twice in a row with the same argument at the same
\* instant gives the same result both times, and a window count leaves the
\* same list both times.
C9_ReadsIdempotent ==
    prev.op \in Reads => (last.ret = prev.ret /\ last.post = prev.post)

C9_Witness ==
    /\ prev.op = WindowCount
    /\ last.op = WindowCount
    /\ last.ret = 1
    /\ last.post = last.pre

\* C10: of two counts of one window with no increment_counter() between
\* them, the later one is not greater than the earlier one.
C10_NonIncreasingWithoutIncrement ==
    \A w \in Windows :
        Len(wcounts[w]) = 2 => wcounts[w][2] <= wcounts[w][1]

C10_Witness ==
    /\ wcounts[2] = <<1, 0>>
    /\ last.op = WindowCount
    /\ last.arg = 2

\* C11 as stated: for a fixed window, when increment_counter() was called
\* between two counts of the window, the second count is at least the first.
C11_NonDecreasingWithIncrements ==
    (/\ last.op = WindowCount
     /\ last.before.ret >= 0
     /\ last.before.incs = 1)
        => last.ret >= last.before.ret

\* C11, amended: with no delete or reset between the two counts, and with
\* every entry the first count left still inside the window when the second
\* count is taken, the second count is at least the first.
C11_NonDecreasingWhileInWindow ==
    (/\ last.op = WindowCount
     /\ last.before.ret >= 0
     /\ last.before.incs = 1
     /\ (last.before.ret = 0 \/ last.before.head >= LastCutoff))
        => last.ret >= last.before.ret

\* a count of a window that follows a count of one entry or more and an
\* increment, all the entries of the first count still in the window
C11_Witness ==
    /\ last.op = WindowCount
    /\ last.before.ret >= 1
    /\ last.before.incs = 1
    /\ last.before.head >= LastCutoff
    /\ last.ret > last.before.ret

\* C12: reads are total on missing data.  Between operations, a
\* counts_for_* query whose key is absent has reported 0, a window count that
\* found no list has returned 0, current_count() with no total key has
\* returned the empty value; and the value popped from a missing list is
\* never converted or pushed back (the exception of line 124 is handled).
C12_ReadsTotalOnMissingData ==
    /\ (Idle /\ last.op = PeriodicCounts) =>
           \A g \in Grans :
              ~EXISTS(redistore, PeriodicKey(g, last.t)) => last.ret[g] = str(0)
    /\ (last.op = WindowCount /\ last.pre = <<>>) => last.ret = 0
    /\ (Idle /\ last.op = "current_count" /\ ~EXISTS(redistore, counter_key)) =>
           last.ret = None
    /\ pc[Main] = "win_lpush" => IsNumeric(frame[Main].head_time)

\* the hour of a key that was incremented and then deleted is queried
C12_Witness ==
    /\ Idle
    /\ last.op = PeriodicCounts
    /\ PeriodicKey(1, last.t) \in touched
    /\ ~EXISTS(redistore, PeriodicKey(1, last.t))
    /\ counts_for_hour(last.ret) = str(0)

\* the strings an index list holds for a sequence of periodic keys
AsValues(keys) == [n \in 1..Len(keys) |-> str(keys[n])]

\* C13: with one writer and a clock that never goes back, between operations
\* each of the four index lists holds every periodic key incremented since the
\* last delete at most once, in the order in which the keys were first
\* incremented.
C13_IndexListsInFirstTouchOrder ==
    Idle =>
        \A g \in Grans :
           LET list == LRANGE(redistore, _periodic_list_keys[g])
           IN  /\ list = AsValues(firsts[g])
               /\ \A m, n \in 1..Len(list) : m # n => list[m] # list[n]

\* a key is incremented again after a second key entered the hours list
C13_Witness ==
    /\ Idle
    /\ Len(LRANGE(redistore, _periodic_list_keys[1])) = 2
    /\ \E k \in DOMAIN applied :
          /\ str(k) \in {LRANGE(redistore, _periodic_list_keys[1])[n] : n \in 1..2}
          /\ applied[k] >= 2

\* C14: week buckets behave as day buckets.  Between operations, a query has
\* reported the same count for the week and for the day of its timestamp, and
\* the weeks list is as long as the days list.
C14_WeekIsDay ==
    (Idle /\ last.op = PeriodicCounts) =>
        /\ counts_for_week(last.ret) = counts_for_day(last.ret)
        /\ LLEN(redistore, _periodic_list_keys[3]) =
               LLEN(redistore, _periodic_list_keys[2])

\* a count of window w is between its first and its last call on the store
CountRunning(w) ==
    \E p \in Procs : frame[p].op = WindowCount /\ frame[p].i = w

\* the timestamps of the list never decrease
Sorted(list) ==
    \A m, n \in 1..Len(list) : m < n => float(list[m]) <= float(list[n])

\* list holds the timestamps appended to window w, in the order of the
\* appends, but for the first k of them, all older than a cutoff that a
\* completed count of the window has used
KeepsRecorded(w, list) ==
    \E k \in 0..Len(pushed[w]) :
       /\ list = [n \in 1..(Len(pushed[w]) - k) |-> str(pushed[w][k + n])]
       /\ \A n \in 1..k : pushed[w][n] < wseen[w].cut

WindowIntact(w) ==
    LET list == LRANGE(redistore, _recent_counts_keys[w])
    IN  Sorted(list) /\ KeepsRecorded(w, list)

\* C15 as stated: several instances interleave increment_counter() and window
\* counts; whenever no count of a window is running, the list of the window
\* is sorted and holds each recorded timestamp of the window exactly once.
C15_WindowIntactUnderInterleaving ==
    \A w \in Windows : ~CountRunning(w) => WindowIntact(w)

\* C15, amended: the same, as long as no increment_counter() call was entered
\* while another one was running and no count of a window was entered while
\* another count of that window was running (one increment_counter() and one
\* count of the window may overlap).
C15_WindowIntactWithoutRaces ==
    ~raced => \A w \in Windows : ~CountRunning(w) => WindowIntact(w)

\* a count that found entries has completed, an increment_counter() of
\* another caller having appended to its list while it ran
C15_Witness ==
    /\ ~raced
    /\ last.op = WindowCount
    /\ ~CountRunning(last.arg)
    /\ last.pre # <<>>
    /\ Len(last.post) > Len(last.pre)

RECURSIVE SumOver(_, _)
\* the sum of the values the store holds under the keys of the set
SumOver(db, keys) ==
    IF keys = {} THEN 0
    ELSE LET k == CHOOSE x \in keys : TRUE
         IN  (IF EXISTS(db, k) THEN float(GET(db, k)) ELSE 0)
                 + SumOver(db, keys \ {k})

\* per granularity, the periodic keys of the instants of Times
BucketKeys == [g \in Grans |-> {PeriodicKey(g, t) : t \in Times}]

\* the sum of the counts of the buckets of granularity g
BucketSum(g) == SumOver(redistore, BucketKeys[g])

Total == float(GET(redistore, counter_key))

\* C16: calls on the store may fail inside increment_counter() (no delete, no
\* reset).  In every state the total is at most the sum of the month counts,
\* which is at most the sum of the week counts, at most the sum of the day
\* counts, at most the sum of the hour counts.
C16_TotalIncrementedLast ==
    /\ Total <= BucketSum(4)
    /\ BucketSum(4) <= BucketSum(3)
    /\ BucketSum(3) <= BucketSum(2)
    /\ BucketSum(2) <= BucketSum(1)

\* a call has failed after it incremented its hour key and before it
\* incremented its month key, and a later call has completed
C16_Witness ==
    /\ Idle
    /\ last.op = "increment_counter"
    /\ ninc >= 1
    /\ Total = ninc
    /\ BucketSum(1) > BucketSum(4)

\* the values the list holds
Elements(list) == {list[n] : n \in 1..Len(list)}

\* C17: between operations of the single caller (no failure), a periodic key
\* exists in the store if and only if its granularity's index list names it,
\* whatever increments, reads, deletes and resets came before.
C17_BucketExistsIffIndexed ==
    Idle =>
        \A g \in Grans : \A k \in BucketKeys[g] :
           EXISTS(redistore, k) <=>
              str(k) \in Elements(LRANGE(redistore, _periodic_list_keys[g]))

\* after a delete, an hour key incremented before the delete is gone and an
\* hour key incremented since exists
C17_Witness ==
    /\ Idle
    /\ ~fresh
    /\ \E k \in BucketKeys[1] : k \in touched /\ ~EXISTS(redistore, k)
    /\ \E k \in BucketKeys[1] : EXISTS(redistore, k)

\* C18: constructed instances increment concurrently (no delete, no reset, no
\* failure).  The values the completed increment_counter() calls returned are
\* pairwise distinct, and when no call is running current_count() is the
\* number of calls.
C18_ConcurrentIncrementsCounted ==
    /\ Cardinality(returned) = ninc
    /\ AllIdle => GET(redistore, counter_key) = str(ninc)

\* two increment_counter() calls that overlapped have completed
C18_Witness ==
    /\ AllIdle
    /\ raced
    /\ ninc = 2
    /\ returned = {1, 2}
    /\ GET(redistore, counter_key) = str(2)

\* the step is a whole current_count() or counts_for_* query of the caller
AtomicRead ==
    /\ pc[Main] = "idle"
    /\ pc'[Main] = "idle"
    /\ nops' # nops
    /\ last'.op \in {"current_count", PeriodicCounts}

\* the step is a step of a count of window w
CountStep(w) ==
    \/ frame[Main].op = WindowCount /\ frame[Main].i = w
    \/ frame'[Main].op = WindowCount /\ frame'[Main].i = w

\* the step changes no key but the list of window w
OnlyWindow(w) ==
    /\ redistore'.s = redistore.s
    /\ Without(redistore'.l, _recent_counts_keys[w]) =
          Without(redistore.l, _recent_counts_keys[w])

\* C19: reads have a bounded footprint.  A current_count() or counts_for_*
\* step changes nothing in the store; every step of a count of window w
\* leaves the total, the periodic keys, the index lists and the lists of the
\* other windows as they are.
C19_ReadFootprint ==
    [][/\ AtomicRead => redistore' = redistore
       /\ \A w \in Windows : CountStep(w) => OnlyWindow(w)]_vars

\* a count has completed that evicted entries of its window, the lists of
\* other windows and periodic keys being in the store
C19_Witness ==
    /\ Idle
    /\ last.op = WindowCount
    /\ Len(last.post) < Len(last.pre)
    /\ \E w \in Windows : w # last.arg /\ LLEN(redistore, _recent_counts_keys[w]) > 0
    /\ touched # {}

=============================================================================
